---- MODULE Spec2Model ----
\* Model of codegen/datatypes.py: the generator of graph_objs datatype classes.
\*
\* Source text is modelled as it is built: the buffer is the sequence of the
\* segments written to it, one record per buffer.write call, holding the values
\* interpolated into that call's template.  A multi-line string (a description,
\* a docstring) is the sequence of its lines, each line an indent (a count of
\* leading spaces) and the text after it; the empty string is one empty line.
EXTENDS Integers, Sequences, FiniteSets, TLC

VARIABLES
    tree,           \* the PlotlyNode tree handed to the generator (read-only)
    called,         \* the last call: [op, path, again], again when the node
                    \* had been built before
    returned,       \* what the last call returned or raised
    first,          \* path -> outcome of the first build_datatype_py on that node
    typing_call,    \* the last get_typing_type call: [plotly_type, array_ok]
    typing_result,  \* what it returned or raised
    typing_prev     \* the call before it, with its result

vars == <<tree, called, returned, first, typing_call, typing_result, typing_prev>>

emit_vars == <<tree, called, returned, first>>
typing_vars == <<typing_call, typing_result, typing_prev>>

-----------------------------------------------------------------------------
\* Bounds of the model

\* Children per compound node
MaxChildren == 2

-----------------------------------------------------------------------------
\* Outcomes of a call

\* A call of build_datatype_py or add_docstring returns the buffer's text or
\* raises; written counts the segments the call had put in its buffer by then
\* (a raise leaves the caller no text: value is empty)
NoCall == [status |-> "none", exc |-> "", value |-> <<>>, written |-> 0]

Return(buffer) ==
    [status |-> "ok", exc |-> "", value |-> buffer, written |-> Len(buffer)]

Raise(e, buffer) ==
    [status |-> "raise", exc |-> e, value |-> <<>>, written |-> Len(buffer)]

\* A call of get_typing_type returns a string or raises
NoTyping == [status |-> "none", exc |-> "", value |-> ""]

ReturnTyping(pytype) == [status |-> "ok", exc |-> "", value |-> pytype]

RaiseTyping(e) == [status |-> "raise", exc |-> e, value |-> ""]

-----------------------------------------------------------------------------
\* get_typing_type

\* The valType strings of the schema, by declared-type tag of the data model
StringTypes == {"string"}
ColorLikeStringTypes == {"color", "colorscale", "subplotid"}
EnumeratedOrFlagOrOpenTypes == {"enumerated", "flaglist", "any"}
NumericTypes == {"number", "angle"}
IntegerTypes == {"integer"}
BooleanTypes == {"boolean"}
ArrayOfDataTypes == {"data_array"}
ArrayOfInfoTypes == {"info_array"}
ColorListTypes == {"colorlist"}

DeclaredTypeTags ==
    {StringTypes, ColorLikeStringTypes, EnumeratedOrFlagOrOpenTypes,
     NumericTypes, IntegerTypes, BooleanTypes, ArrayOfDataTypes,
     ArrayOfInfoTypes, ColorListTypes}

KnownPlotlyTypes == UNION DeclaredTypeTags

\* Strings that are no valType of a leaf value
UnknownPlotlyTypes == {"", "geometry", "String", "int", "compound", "List"}

PlotlyTypes == KnownPlotlyTypes \cup UnknownPlotlyTypes

array_ok_type(pytype) == "Union[" \o pytype \o ", List[" \o pytype \o "]]"

\* Variant: the branch of 'any' is missing
pytype_of_without_any(plotly_type) ==
    IF plotly_type \in {"data_array", "info_array", "colorlist"} THEN "List"
    ELSE IF plotly_type \in {"string", "color", "colorscale", "subplotid"} THEN "str"
    ELSE IF plotly_type \in {"enumerated", "flaglist"} THEN "Any"
    ELSE IF plotly_type \in {"number", "angle"} THEN "Number"
    ELSE IF plotly_type = "integer" THEN "int"
    ELSE IF plotly_type = "boolean" THEN "bool"
    ELSE ""

\* The if/elif chain: the Python type of a valType, "" where the chain raises
pytype_of(plotly_type) ==
    IF plotly_type \in {"data_array", "info_array", "colorlist"} THEN "List"
    ELSE IF plotly_type \in {"string", "color", "colorscale", "subplotid"} THEN "str"
    ELSE IF plotly_type \in {"enumerated", "flaglist", "any"} THEN "Any"
    ELSE IF plotly_type \in {"number", "angle"} THEN "Number"
    ELSE IF plotly_type = "integer" THEN "int"
    ELSE IF plotly_type = "boolean" THEN "bool"
    ELSE ""

\* Variant: array_ok is ignored for 'integer'
get_typing_type_integer_scalar(plotly_type, array_ok) ==
    IF pytype_of(plotly_type) = "" THEN RaiseTyping("ValueError")
    ELSE IF array_ok /\ plotly_type # "integer"
         THEN ReturnTyping(array_ok_type(pytype_of(plotly_type)))
         ELSE ReturnTyping(pytype_of(plotly_type))

get_typing_type(plotly_type, array_ok) ==
    IF pytype_of(plotly_type) = "" THEN RaiseTyping("ValueError")
    ELSE IF array_ok THEN ReturnTyping(array_ok_type(pytype_of(plotly_type)))
         ELSE ReturnTyping(pytype_of(plotly_type))

-----------------------------------------------------------------------------
\* Multi-line strings

Line(indent, text) == [indent |-> indent, text |-> text]

\* The empty string: one line, nothing on it
EmptyString == <<Line(0, "")>>

\* A line with nothing but spaces on it
IsBlankLine(line) == line.text = ""

\* s.strip() is the empty string
IsBlank(s) == \A i \in DOMAIN s : IsBlankLine(s[i])

\* '\n'.join(lines)
JoinLines(lines) == IF lines = <<>> THEN EmptyString ELSE lines

\* prefix + s, where prefix is `indent` spaces
Indented(indent, s) ==
    [i \in DOMAIN s |->
        IF i = 1 THEN Line(s[1].indent + indent, s[1].text) ELSE s[i]]

\* a + '\n' + b
OnNewLine(a, b) == a \o b

RECURSIVE DropLeadingBlank(_)
DropLeadingBlank(lines) ==
    IF lines = <<>> THEN <<>>
    ELSE IF IsBlankLine(Head(lines)) THEN DropLeadingBlank(Tail(lines))
    ELSE lines

RECURSIVE DropTrailingBlank(_)
DropTrailingBlank(lines) ==
    IF lines = <<>> THEN <<>>
    ELSE IF IsBlankLine(lines[Len(lines)])
         THEN DropTrailingBlank(SubSeq(lines, 1, Len(lines) - 1))
    ELSE lines

\* str.strip(): the leading and trailing white space go, blank lines and the
\* first line's indent with them
strip(s) ==
    LET kept == DropTrailingBlank(DropLeadingBlank(s))
    IN  IF kept = <<>> THEN EmptyString
        ELSE [i \in DOMAIN kept |->
                IF i = 1 THEN Line(0, kept[1].text) ELSE kept[i]]

\* Widths of the emitted docstrings
LineWidth == 79
DocIndent == 8
ValidatorExtraIndent == 4

\* textwrap.wrap's greedy fill: words go on the current line while the line,
\* indent included, stays within width; `cur` is the line being filled
RECURSIVE wrap_fill(_, _, _, _)
wrap_fill(words, cur, width, indent) ==
    IF words = <<>> THEN (IF cur = "" THEN <<>> ELSE <<Line(indent, cur)>>)
    ELSE LET w == Head(words)
         IN  IF cur = "" THEN wrap_fill(Tail(words), w, width, indent)
             ELSE IF indent + Len(cur) + 1 + Len(w) <= width
                  THEN wrap_fill(Tail(words), cur \o " " \o w, width, indent)
                  ELSE <<Line(indent, cur)>>
                       \o wrap_fill(Tail(words), w, width, indent)

\* textwrap.wrap(text, initial_indent=' ' * indent,
\*               subsequent_indent=' ' * indent, width=width):
\* the list of wrapped lines of a text given as its words
wrap(words, width, indent) == wrap_fill(words, "", width, indent)

-----------------------------------------------------------------------------
\* PlotlyNode: the schema tree

NoValidator == [present |-> FALSE, description |-> EmptyString]

Validator(description) == [present |-> TRUE, description |-> description]

Node(plotly_name, kind, is_array_element, datatype, description, validator, node_data, children) ==
    [plotly_name |-> plotly_name, kind |-> kind,
     is_array_element |-> is_array_element, datatype |-> datatype,
     description |-> description, validator |-> validator,
     node_data |-> node_data, children |-> children]

\* Descriptions, as their words: none, one line, more than one line wrapped
Descriptions ==
    {<<>>,
     <<"Sets", "the", "marker", "color">>,
     <<"Determines", "whether_or_not_a_colorbar_is_displayed",
       "for_this_trace_when_it_is_shown", "in_the_legend">>}

\* Validators of a leaf value: none, one whose description is blank, one line,
\* several lines with a blank one among them
Validators ==
    {NoValidator,
     Validator(<<Line(0, ""), Line(4, "")>>),
     Validator(<<Line(4, "The_color_property_is_a_color")>>),
     Validator(<<Line(0, ""), Line(4, "A_number_that_may_be_specified_as:"),
                 Line(0, ""), Line(6, "-_An_int_or_float"), Line(4, "")>>)}

LeafValues ==
    {Node("color", "simple", FALSE, "color", d, v, "", <<>>) :
        d \in Descriptions, v \in Validators}
    \cup
    {Node("size", "simple", FALSE, "number", <<"Sets", "the", "size">>,
          Validator(<<Line(4, "An_int_or_float")>>), "", <<>>),
     \* a valType get_typing_type does not know
     Node("shape", "simple", FALSE, "geometry", <<>>, NoValidator, "", <<>>)}

Literals ==
    {Node("type", "literal", FALSE, "", <<>>, NoValidator, "scatter", <<>>),
     Node("role", "literal", FALSE, "", <<>>, NoValidator, "object", <<>>)}

\* Compound children: a nested object, and the element type of an array
Compounds ==
    {Node("line", "compound", FALSE, "", <<"Sets", "the", "line">>,
          NoValidator, "", <<>>),
     Node("annotations", "compound", TRUE, "", <<>>, NoValidator, "", <<>>)}

ChildNodes == LeafValues \cup Literals \cup Compounds

\* Sibling names are unique
UniqueNames(children) ==
    \A i, j \in DOMAIN children :
        children[i].plotly_name = children[j].plotly_name => i = j

ChildLists ==
    {c \in UNION {[1..n -> ChildNodes] : n \in 0..MaxChildren} : UniqueNames(c)}

\* The nodes a caller may hand to the generator: the root, a trace or a nested
\* object, of any kind
RootNames == {"marker"}

Trees ==
    {Node(name, "compound", FALSE, "", d, NoValidator, "", c) :
        name \in RootNames, d \in {<<"A", "marker">>}, c \in ChildLists}

\* Paths of the nodes of a tree: the root and its children
Paths(t) == {<<>>} \cup {<<i>> : i \in DOMAIN t.children}

NodeAt(t, path) == IF path = <<>> THEN t ELSE t.children[path[1]]

\* PlotlyNode's derived properties
is_compound(node) == node.kind = "compound"

is_literal(node) == node.kind = "literal"

name_property(node) == node.plotly_name

name_undercase(node) == node.plotly_name

name_datatype_class(node) == "Class_" \o node.plotly_name

name_validator_class(node) == name_datatype_class(node) \o "Validator"

name_base_datatype(node) ==
    IF node.plotly_name = "scatter" THEN "BaseTraceType" ELSE "BasePlotlyType"

child_datatypes(node) == SelectSeq(node.children, LAMBDA n : ~is_literal(n))

child_literals(node) == SelectSeq(node.children, is_literal)

child_compound_datatypes(node) == SelectSeq(node.children, is_compound)

get_validator_instance(node) == node.validator

\* One "name: wrapped description" entry per constructor parameter
get_constructor_params_docstring(node, indent) ==
    [i \in DOMAIN child_datatypes(node) |->
        [name |-> name_property(child_datatypes(node)[i]),
         description |->
            JoinLines(wrap(child_datatypes(node)[i].description,
                           LineWidth - indent, indent + 4))]]

-----------------------------------------------------------------------------
\* build_datatype_py and its helpers

\* A local variable that no assignment has bound yet
Unbound == "<unbound>"

\* Variant: one buffer shared by the calls, holding what the last one left
SharedStringIO == returned.value

\* StringIO(): a new, empty buffer
StringIO == <<>>

\* buffer.write(segment)
write(buffer, segment) == Append(buffer, segment)

literal_nodes_of(node) ==
    SelectSeq(child_literals(node), LAMBDA n : n.plotly_name \in {"type"})

\* Variant: array elements are not counted as compound children
imports_non_array_compound(node) ==
    \E i \in DOMAIN node.children :
        is_compound(node.children[i]) /\ ~node.children[i].is_array_element

\* Whether the graph_objs package of the node's children is imported
imports_graph_objs(node) == child_compound_datatypes(node) # <<>>

write_imports(buffer, node) ==
    LET b1 == write(buffer, [seg |-> "import_typing"])
        b2 == write(b1, [seg |-> "import_number"])
        b3 == write(b2, [seg |-> "import_base",
                         name |-> name_base_datatype(node)])
        b4 == write(b3, [seg |-> "import_validators",
                         name |-> "v_" \o name_undercase(node)])
    IN  IF imports_graph_objs(node)
        THEN write(b4, [seg |-> "import_graph_objs",
                        name |-> "d_" \o name_undercase(node)])
        ELSE b4

\* The type of a property's accessor, or the exception raised finding it
prop_type_of(node, subtype_node) ==
    IF subtype_node.is_array_element
    THEN ReturnTyping("Tuple[d_" \o name_undercase(node) \o "."
                \o name_datatype_class(subtype_node) \o "]")
    ELSE IF is_compound(subtype_node)
    THEN ReturnTyping("d_" \o name_undercase(node) \o "."
                \o name_datatype_class(subtype_node))
    ELSE get_typing_type(subtype_node.datatype, FALSE)

\* The validator's description, its first line unindented and the lines after
\* it indented by extra_indent more
reindent_validator_description(validator, extra_indent) ==
    LET lines == strip(validator.description)
    IN  [i \in DOMAIN lines |->
            IF i = 1 THEN lines[1]
            ELSE Line(lines[i].indent + extra_indent, lines[i].text)]

\* Variant: the validator's description is tested, not the validator
property_docstring_symmetric(subtype_node) ==
    LET property_description ==
            JoinLines(wrap(subtype_node.description,
                           LineWidth - DocIndent, DocIndent))
        validator == get_validator_instance(subtype_node)
        validator_description ==
            reindent_validator_description(validator, ValidatorExtraIndent)
    IN  IF validator.present /\ ~IsBlank(validator_description)
        THEN IF ~IsBlank(property_description)
             THEN OnNewLine(property_description,
                    OnNewLine(<<Line(4, "")>>,
                              Indented(DocIndent, validator_description)))
             ELSE Indented(DocIndent, validator_description)
        ELSE property_description

\* The body of the docstring of a property's getter
property_docstring(subtype_node) ==
    LET property_description ==
            JoinLines(wrap(subtype_node.description,
                           LineWidth - DocIndent, DocIndent))
        validator == get_validator_instance(subtype_node)
        validator_description ==
            reindent_validator_description(validator, ValidatorExtraIndent)
    IN  IF validator.present
        THEN IF ~IsBlank(property_description)
             THEN OnNewLine(property_description,
                    OnNewLine(<<Line(4, "")>>,
                              Indented(DocIndent, validator_description)))
             ELSE Indented(DocIndent, validator_description)
        ELSE property_description

\* The loop over the subtype nodes, from the i-th on: the getter and the setter
\* of each are written; locals holds the function's buffer and prop_type, and
\* the exception that ended the loop
RECURSIVE write_properties(_, _, _, _)
write_properties(node, subtype_nodes, i, locals) ==
    IF i > Len(subtype_nodes) THEN locals
    ELSE LET subtype_node == subtype_nodes[i]
             typed == prop_type_of(node, subtype_node)
             getter == [seg |-> "getter",
                        name |-> name_property(subtype_node),
                        prop_type |-> typed.value,
                        docstring |-> property_docstring(subtype_node)]
             setter == [seg |-> "setter",
                        name |-> name_property(subtype_node)]
         IN  IF typed.status = "raise"
             THEN [locals EXCEPT !.exc = typed.exc]
             ELSE write_properties(node, subtype_nodes, i + 1,
                    [locals EXCEPT
                        !.buffer = write(write(@, getter), setter),
                        !.prop_type = typed.value])

\* The loop over the literal nodes: a getter each, typed by prop_type
RECURSIVE write_literals(_, _, _)
write_literals(literal_nodes, i, locals) ==
    IF i > Len(literal_nodes) THEN locals
    ELSE IF locals.prop_type = Unbound
    THEN [locals EXCEPT !.exc = "UnboundLocalError"]
    ELSE write_literals(literal_nodes, i + 1,
            [locals EXCEPT !.buffer =
                write(@, [seg |-> "literal_getter",
                          name |-> name_property(literal_nodes[i]),
                          prop_type |-> locals.prop_type])])


\* Variant: the parameters have no default
add_constructor_params_required(buffer, subtype_nodes) ==
    LET params == [i \in DOMAIN subtype_nodes |->
                    [seg |-> "param",
                     name |-> name_property(subtype_nodes[i]),
                     default |-> ""]]
    IN  write(write(buffer \o params, [seg |-> "kwargs"]),
              [seg |-> "params_close"])

\* Variant: the parameters are written last to first
add_constructor_params_reversed(buffer, subtype_nodes) ==
    LET n == Len(subtype_nodes)
        params == [i \in 1..n |->
                    [seg |-> "param",
                     name |-> name_property(subtype_nodes[n + 1 - i]),
                     default |-> "None"]]
    IN  write(write(buffer \o params, [seg |-> "kwargs"]),
              [seg |-> "params_close"])

\* The constructor's parameters after self: name=None for each subtype node,
\* then **kwargs, then the closing of the signature
add_constructor_params(buffer, subtype_nodes) ==
    LET params == [i \in DOMAIN subtype_nodes |->
                    [seg |-> "param",
                     name |-> name_property(subtype_nodes[i]),
                     default |-> "None"]]
    IN  write(write(buffer \o params, [seg |-> "kwargs"]),
              [seg |-> "params_close"])

\* The docstring of a compound node: the buffer after it is written, or the
\* exception raised
add_docstring(buffer, node, header) ==
    IF ~is_compound(node) THEN Raise("AssertionError", buffer)
    ELSE
    LET node_description ==
            IF node.description # <<>>
            THEN wrap(node.description, LineWidth - DocIndent, DocIndent)
            ELSE <<>>
        b1 == write(buffer,
                [seg |-> "docstring_open", header |-> header,
                 description |-> node_description])
        b2 == write(b1,
                [seg |-> "docstring_params",
                 params |-> get_constructor_params_docstring(node, DocIndent)])
    IN  Return(write(b2, [seg |-> "docstring_returns",
                          name |-> name_datatype_class(node)]))

\* self._validators[name] = v_<undercase>.<validator class>() for each
write_validators(buffer, node, subtype_nodes) ==
    buffer \o [i \in DOMAIN subtype_nodes |->
                [seg |-> "validator",
                 name |-> name_property(subtype_nodes[i]),
                 validator |-> "v_" \o name_undercase(node) \o "."
                               \o name_validator_class(subtype_nodes[i])]]

\* self.<name> = <name> for each
write_populate(buffer, subtype_nodes) ==
    buffer \o [i \in DOMAIN subtype_nodes |->
                [seg |-> "assign",
                 name |-> name_property(subtype_nodes[i])]]

\* self._props[name] = value for each literal, under a header if there is one
write_literal_props(buffer, literal_nodes) ==
    IF literal_nodes = <<>> THEN buffer
    ELSE write(buffer, [seg |-> "literals_header"])
         \o [i \in DOMAIN literal_nodes |->
                [seg |-> "literal_assign",
                 name |-> name_property(literal_nodes[i]),
                 value |-> literal_nodes[i].node_data]]

\* What follows the accessors: the private properties and the constructor
write_constructor(buffer, node, subtype_nodes) ==
    LET b1 == write(buffer, [seg |-> "parent_path_str"])
        b2 == write(b1,
                [seg |-> "prop_descriptions",
                 params |-> get_constructor_params_docstring(node, DocIndent)])
        b3 == write(b2, [seg |-> "init_self"])
        b4 == add_constructor_params(b3, subtype_nodes)
        documented == add_docstring(b4, node,
                        "Construct a new " \o name_datatype_class(node)
                        \o " object")
    IN  IF documented.status = "raise" THEN documented
        ELSE
        LET b5 == write(documented.value,
                    [seg |-> "super_init", name |-> name_property(node)])
            b6 == write_validators(b5, node, subtype_nodes)
            b7 == write(b6, [seg |-> "populate_header"])
            b8 == write_populate(b7, subtype_nodes)
        IN  Return(write_literal_props(b8, literal_nodes_of(node)))

\* Variant: the assertion on node.is_compound is missing
build_datatype_py_unguarded(node) ==
    LET b0 == write(write_imports(StringIO, node),
                    [seg |-> "class", name |-> name_datatype_class(node),
                     base |-> name_base_datatype(node)])
        subtype_nodes == child_datatypes(node)
        props == write_properties(node, subtype_nodes, 1,
                    [buffer |-> b0, prop_type |-> Unbound, exc |-> ""])
        lits == write_literals(literal_nodes_of(node), 1, props)
    IN  IF props.exc # "" THEN Raise(props.exc, props.buffer)
        ELSE IF lits.exc # "" THEN Raise(lits.exc, lits.buffer)
        ELSE write_constructor(lits.buffer, node, subtype_nodes)

\* The source of the datatype class of a node, or the exception raised
build_datatype_py(node) ==
    IF ~is_compound(node) THEN Raise("AssertionError", <<>>)
    ELSE
    LET b0 == write(write_imports(StringIO, node),
                    [seg |-> "class", name |-> name_datatype_class(node),
                     base |-> name_base_datatype(node)])
        subtype_nodes == child_datatypes(node)
        props == write_properties(node, subtype_nodes, 1,
                    [buffer |-> b0, prop_type |-> Unbound, exc |-> ""])
        lits == write_literals(literal_nodes_of(node), 1, props)
    IN  IF props.exc # "" THEN Raise(props.exc, props.buffer)
        ELSE IF lits.exc # "" THEN Raise(lits.exc, lits.buffer)
        ELSE write_constructor(lits.buffer, node, subtype_nodes)

-----------------------------------------------------------------------------
\* The generator run over a tree

Init ==
    /\ tree \in Trees
    /\ called = [op |-> "none", path |-> <<>>, again |-> FALSE]
    /\ returned = NoCall
    /\ first = [p \in Paths(tree) |-> NoCall]
    /\ typing_call = [plotly_type |-> "", array_ok |-> FALSE]
    /\ typing_result = NoTyping
    /\ typing_prev = [call |-> typing_call, result |-> typing_result]

\* build_datatype_py(node) for a node of the tree
BuildDatatypePy(path) ==
    /\ called' = [op |-> "build_datatype_py", path |-> path,
                  again |-> first[path] # NoCall]
    /\ returned' = build_datatype_py(NodeAt(tree, path))
    /\ first' = IF first[path] = NoCall
                THEN [first EXCEPT ![path] = returned']
                ELSE first
    /\ UNCHANGED <<tree, typing_vars>>

\* add_docstring(StringIO(), node, header) for a node of the tree
AddDocstring(path) ==
    /\ called' = [op |-> "add_docstring", path |-> path, again |-> FALSE]
    /\ returned' = add_docstring(StringIO, NodeAt(tree, path), "header")
    /\ UNCHANGED <<tree, first, typing_vars>>

Next ==
    \/ \E path \in Paths(tree) : BuildDatatypePy(path)
    \/ \E path \in Paths(tree) : AddDocstring(path)

Spec == Init /\ [][Next]_vars

\* get_typing_type called on its own, on any string
InitTyping ==
    /\ tree = Node("marker", "compound", FALSE, "", <<>>, NoValidator, "", <<>>)
    /\ called = [op |-> "none", path |-> <<>>, again |-> FALSE]
    /\ returned = NoCall
    /\ first = [p \in Paths(tree) |-> NoCall]
    /\ typing_call = [plotly_type |-> "", array_ok |-> FALSE]
    /\ typing_result = NoTyping
    /\ typing_prev = [call |-> typing_call, result |-> typing_result]

GetTypingType(plotly_type, array_ok) ==
    /\ typing_call' = [plotly_type |-> plotly_type, array_ok |-> array_ok]
    /\ typing_result' = get_typing_type(plotly_type, array_ok)
    /\ typing_prev' = [call |-> typing_call, result |-> typing_result]
    /\ UNCHANGED emit_vars

NextTyping ==
    \E plotly_type \in PlotlyTypes, array_ok \in BOOLEAN :
        GetTypingType(plotly_type, array_ok)

SpecTyping == InitTyping /\ [][NextTyping]_vars

-----------------------------------------------------------------------------
\* Properties of get_typing_type (under SpecTyping)

TypingCalled == typing_result.status # "none"

\* The declared-type tag a valType belongs to
TagOf(plotly_type) ==
    CHOOSE T \in DeclaredTypeTags \cup {{}} :
        plotly_type \in T \/ (T = {} /\ plotly_type \notin KnownPlotlyTypes)

\* C1: each of the nine declared-type tags maps to one non-empty type
\* expression, the same for every valType of the tag, and every string outside
\* the nine tags raises instead of returning a type.
C1_TypeMappingTotality ==
    /\ Cardinality(DeclaredTypeTags) = 9
    /\ \A T, U \in DeclaredTypeTags : T # U => T \cap U = {}
    /\ TypingCalled =>
        IF typing_call.plotly_type \in KnownPlotlyTypes
        THEN /\ typing_result.status = "ok"
             /\ typing_result.value # ""
             /\ (/\ typing_prev.result.status # "none"
                 /\ TagOf(typing_prev.call.plotly_type)
                        = TagOf(typing_call.plotly_type)
                 /\ typing_prev.call.array_ok = typing_call.array_ok)
                => typing_prev.result = typing_result
        ELSE /\ typing_result.status = "raise"
             /\ typing_result.exc = "ValueError"
             /\ typing_result.value = ""

\* A valType of a known tag was mapped, then an unknown one was refused
C1_Witness ==
    /\ typing_call.plotly_type = "geometry"
    /\ typing_result.status = "raise"
    /\ typing_prev.call.plotly_type = "angle"
    /\ typing_prev.result.status = "ok"
    /\ typing_prev.result.value = "Number"

\* "a single B, or an ordered sequence of B"
ScalarOrSequenceOf(B) == "Union[" \o B \o ", List[" \o B \o "]]"

\* The same valType was mapped with array_ok false and then with array_ok true
ArrayOkAfterScalar ==
    /\ TypingCalled
    /\ typing_prev.result.status # "none"
    /\ typing_prev.call.plotly_type = typing_call.plotly_type
    /\ ~typing_prev.call.array_ok
    /\ typing_call.array_ok

\* C2: for a known valType with base type B, array_ok gives the
\* scalar-or-sequence expression of that B, which differs from B; an unknown
\* valType raises the same way with and without array_ok.
C2_ArrayOkComposition ==
    ArrayOkAfterScalar =>
        IF typing_call.plotly_type \in KnownPlotlyTypes
        THEN /\ typing_prev.result.status = "ok"
             /\ typing_result.status = "ok"
             /\ typing_result.value
                    = ScalarOrSequenceOf(typing_prev.result.value)
             /\ typing_result.value # typing_prev.result.value
        ELSE /\ typing_prev.result.status = "raise"
             /\ typing_result = typing_prev.result

C2_Witness ==
    /\ ArrayOkAfterScalar
    /\ typing_call.plotly_type = "integer"
    /\ typing_result.value = "Union[int, List[int]]"

-----------------------------------------------------------------------------
\* Properties of build_datatype_py (under Spec)

\* The node of the last call
CalledNode == NodeAt(tree, called.path)

Built == called.op = "build_datatype_py"

\* The last call was build_datatype_py and it returned the source text
Emitted == Built /\ returned.status = "ok"

\* The segments of one kind in the returned text, in the order written
Section(kind) == SelectSeq(returned.value, LAMBDA s : s.seg = kind)

SectionNames(kind) == [i \in DOMAIN Section(kind) |-> Section(kind)[i].name]

\* The constructor's parameters after self
ParameterList == SelectSeq(returned.value, LAMBDA s : s.seg \in {"param", "kwargs"})

RECURSIVE ChildrenOfKinds(_, _)
ChildrenOfKinds(children, kinds) ==
    IF children = <<>> THEN <<>>
    ELSE (IF Head(children).kind \in kinds THEN <<Head(children)>> ELSE <<>>)
         \o ChildrenOfKinds(Tail(children), kinds)

NonLiteralChildren(node) == ChildrenOfKinds(node.children, {"simple", "compound"})

LiteralChildren(node) == ChildrenOfKinds(node.children, {"literal"})

NamesOf(nodes) == [i \in DOMAIN nodes |-> nodes[i].plotly_name]

Range(f) == {f[i] : i \in DOMAIN f}

HasTypeLiteral(node) ==
    \E i \in DOMAIN node.children :
        /\ node.children[i].kind = "literal"
        /\ node.children[i].plotly_name = "type"

TypeLiteral(node) ==
    node.children[CHOOSE i \in DOMAIN node.children :
                    /\ node.children[i].kind = "literal"
                    /\ node.children[i].plotly_name = "type"]

\* C3: the parameter list of an emitted constructor is the non-literal
\* children, each a keyword parameter defaulting to None, then **kwargs last;
\* no literal child is named in it and no parameter is required.
C3_ParameterLiteralExclusion ==
    Emitted =>
        LET children == NonLiteralChildren(CalledNode)
            n == Len(children)
        IN  /\ Len(ParameterList) = n + 1
            /\ \A i \in 1..n :
                ParameterList[i] = [seg |-> "param",
                                    name |-> children[i].plotly_name,
                                    default |-> "None"]
            /\ ParameterList[n + 1] = [seg |-> "kwargs"]
            /\ \A i \in 1..n :
                ParameterList[i].name
                    \notin Range(NamesOf(LiteralChildren(CalledNode)))

\* A class was emitted for a node with a literal and a non-literal child
C3_Witness ==
    /\ Emitted
    /\ LiteralChildren(CalledNode) # <<>>
    /\ NonLiteralChildren(CalledNode) # <<>>
    /\ Len(ParameterList) = 2

\* The literal `type` in an emitted text: one getter, no setter, and the
\* private slot seeded with the node's value
TypeLiteralEmitted(node) ==
    /\ Len(Section("literal_getter")) = 1
    /\ Section("literal_getter")[1].name = "type"
    /\ "type" \notin Range(SectionNames("setter"))
    /\ "type" \notin Range(SectionNames("getter"))
    /\ Section("literal_assign")
        = <<[seg |-> "literal_assign", name |-> "type",
             value |-> TypeLiteral(node).node_data]>>

\* C4: build_datatype_py succeeds on every compound node with a literal child
\* named type, whatever its other children, and emits one read-only accessor
\* for it and the seeding of its private slot with the literal's value.
C4_LiteralHandling ==
    (Built /\ CalledNode.kind = "compound" /\ HasTypeLiteral(CalledNode)
        /\ \A i \in DOMAIN CalledNode.children :
            CalledNode.children[i].datatype \notin UnknownPlotlyTypes \ {""})
    => (returned.status = "ok" /\ TypeLiteralEmitted(CalledNode))

\* C5: the accessor pairs, the constructor parameters, the validator
\* registrations and the property assignments of an emitted class each name
\* the non-literal children, once each, in the order of the tree.
C5_OrderAndSectionConsistency ==
    Emitted =>
        LET names == NamesOf(NonLiteralChildren(CalledNode))
        IN  /\ SectionNames("getter") = names
            /\ SectionNames("setter") = names
            /\ SectionNames("param") = names
            /\ SectionNames("validator") = names
            /\ SectionNames("assign") = names
            \* each getter is followed by its own setter
            /\ \A i \in DOMAIN returned.value :
                returned.value[i].seg = "getter" =>
                    /\ i < Len(returned.value)
                    /\ returned.value[i + 1]
                        = [seg |-> "setter", name |-> returned.value[i].name]

\* A class was emitted for a node with two non-literal children
C5_Witness ==
    /\ Emitted
    /\ Len(NonLiteralChildren(CalledNode)) >= 2
    /\ SectionNames("param") = <<"size", "color">>

\* C6: build_datatype_py succeeds on every compound node without non-literal
\* children, with or without a literal type, and the class it emits has no
\* parameter but **kwargs, no accessor pair, no validator and no assignment.
C6_ZeroPropertyCompound ==
    (Built /\ CalledNode.kind = "compound"
        /\ NonLiteralChildren(CalledNode) = <<>>)
    => /\ returned.status = "ok"
       /\ ParameterList = <<[seg |-> "kwargs"]>>
       /\ Section("getter") = <<>>
       /\ Section("setter") = <<>>
       /\ Section("validator") = <<>>
       /\ Section("assign") = <<>>

Complete(text) ==
    /\ text # <<>>
    /\ text[1] = [seg |-> "import_typing"]
    /\ \A kind \in {"import_number", "import_base", "import_validators",
                    "class", "parent_path_str", "prop_descriptions",
                    "init_self", "kwargs", "params_close", "docstring_open",
                    "docstring_params", "docstring_returns", "super_init",
                    "populate_header"} :
        Cardinality({i \in DOMAIN text : text[i].seg = kind}) = 1
    /\ text[Len(text)].seg \in {"populate_header", "assign", "literal_assign"}

\* What C8 says of a state: a build returns what the first build of the same
\* node returned, and it returns a whole text or raises with no text
C8_Outcome ==
    Built =>
        /\ returned = first[called.path]
        /\ \/ returned.status = "ok" /\ Complete(returned.value)
           \/ returned.status = "raise" /\ returned.value = <<>>

WrappedDescription(child) ==
    JoinLines(wrap(child.description, LineWidth - DocIndent, DocIndent))

ReindentedValidatorDescription(child) ==
    Indented(DocIndent,
             reindent_validator_description(child.validator,
                                            ValidatorExtraIndent))

SeparatorLine == <<Line(4, "")>>

HasDescription(child) == ~IsBlank(WrappedDescription(child))

HasValidatorDescription(child) ==
    child.validator.present /\ ~IsBlank(ReindentedValidatorDescription(child))

\* C9 as stated: the separator is written when both the description and the
\* validator's description are non-empty, one of them stands alone when the
\* other is empty, and the body is empty when both are.
C9_DocstringComposition ==
    Emitted =>
        \A i \in DOMAIN NonLiteralChildren(CalledNode) :
            LET child == NonLiteralChildren(CalledNode)[i]
                docstring == Section("getter")[i].docstring
            IN  CASE HasDescription(child) /\ HasValidatorDescription(child) ->
                        docstring = WrappedDescription(child) \o SeparatorLine
                                    \o ReindentedValidatorDescription(child)
                  [] HasDescription(child) /\ ~HasValidatorDescription(child) ->
                        docstring = WrappedDescription(child)
                  [] ~HasDescription(child) /\ HasValidatorDescription(child) ->
                        docstring = ReindentedValidatorDescription(child)
                  [] OTHER -> IsBlank(docstring)

\* The children whose valType get_typing_type does not know
UnknownTypedChildren(node) ==
    {i \in DOMAIN node.children :
        /\ node.children[i].kind = "simple"
        /\ node.children[i].datatype \notin KnownPlotlyTypes}

\* C9 as amended: the separator and the validator's description are written
\* whenever the child has a validator, be that description blank or not; the
\* description stands alone only without a validator; the body is the empty
\* string when there is neither; and no build is aborted by a docstring: one
\* that raises has met an unknown valType or a literal with no property
\* before it.
C9_DocstringByValidatorPresence ==
    /\ Emitted =>
        \A i \in DOMAIN NonLiteralChildren(CalledNode) :
            LET child == NonLiteralChildren(CalledNode)[i]
                docstring == Section("getter")[i].docstring
            IN  CASE HasDescription(child) /\ child.validator.present ->
                        docstring = WrappedDescription(child) \o SeparatorLine
                                    \o ReindentedValidatorDescription(child)
                  [] HasDescription(child) /\ ~child.validator.present ->
                        docstring = WrappedDescription(child)
                  [] ~HasDescription(child) /\ child.validator.present ->
                        docstring = ReindentedValidatorDescription(child)
                  [] OTHER -> docstring = EmptyString
    /\ (Built /\ CalledNode.kind = "compound" /\ returned.status = "raise") =>
        \/ UnknownTypedChildren(CalledNode) # {}
        \/ HasTypeLiteral(CalledNode) /\ NonLiteralChildren(CalledNode) = <<>>

\* A getter was emitted for a described child whose validator has a blank
\* description: the separator is there, with a line of spaces after it
C9_Witness ==
    /\ Emitted
    /\ \E i \in DOMAIN NonLiteralChildren(CalledNode) :
        LET child == NonLiteralChildren(CalledNode)[i]
        IN  /\ HasDescription(child)
            /\ child.validator.present
            /\ ~HasValidatorDescription(child)
            /\ Len(WrappedDescription(child)) = 2
            /\ Section("getter")[i].docstring
                = WrappedDescription(child)
                  \o <<Line(4, ""), Line(DocIndent, "")>>

\* C10: an emitted text imports the graph_objs package of the node's children
\* exactly when a child is compound; the getter of a compound child is typed
\* by the child's class in that package, a tuple of it for an array element,
\* and that of a leaf value by get_typing_type.
C10_NestedReferenceResolution ==
    Emitted =>
        LET import == "d_" \o CalledNode.plotly_name
            children == NonLiteralChildren(CalledNode)
        IN  /\ Section("import_graph_objs")
                = IF \E i \in DOMAIN CalledNode.children :
                        CalledNode.children[i].kind = "compound"
                  THEN <<[seg |-> "import_graph_objs", name |-> import]>>
                  ELSE <<>>
            /\ \A i \in DOMAIN children :
                LET class == import \o "." \o "Class_" \o children[i].plotly_name
                    prop_type == Section("getter")[i].prop_type
                IN  IF children[i].kind = "compound"
                    THEN /\ prop_type = IF children[i].is_array_element
                                        THEN "Tuple[" \o class \o "]"
                                        ELSE class
                         /\ Section("import_graph_objs") # <<>>
                    ELSE /\ children[i].datatype \in KnownPlotlyTypes
                         /\ prop_type
                            = get_typing_type(children[i].datatype, FALSE).value

\* A text was emitted for a node whose only compound child is an array element
C10_Witness ==
    /\ Emitted
    /\ Section("import_graph_objs") # <<>>
    /\ Len(NonLiteralChildren(CalledNode)) = 2
    /\ Section("getter")[1].prop_type = "Tuple[d_marker.Class_annotations]"
    /\ Section("getter")[2].prop_type = "str"

====
